---- MODULE Spec2Model ----
(***************************************************************************)
(* Motion-gated dispatch pipeline of CASC.                                 *)
(*                                                                         *)
(*   MotionDetector  (src/src/motion_detector.py): consecutive-frame       *)
(*                   debounce + cooldown, generator process_stream.        *)
(*   LiveDetector    (src/src/live_detector.py): motion -> face -> interval *)
(*                   gate, generator process_live_stream.                  *)
(*   CASCApplication (src/src/server.py): the monitoring run that opens    *)
(*                   the camera, consumes process_live_stream and releases *)
(*                   the LiveDetector in its finally block.                *)
(*                                                                         *)
(* A frame is represented by the foreground mask that                      *)
(* background_subtractor.apply(frame) returns for it (a 1 x MaskLen image  *)
(* over the MOG2 classes 0 / 127 / 255) and, for the face detector, by the *)
(* number of regions detectMultiScale returns on it.  The clock is the     *)
(* value time.time() returns.                                              *)
(***************************************************************************)
EXTENDS Integers, Sequences, FiniteSets, TLC

\* ---------------------------------------------------------------- bounds
MaxTime == 6            \* largest clock value explored
MaxFrames == 6          \* frames the MotionDetector frame loop reads in one session
MaxLiveFrames == 4      \* frames the LiveDetector frame loop reads in one session
MaskLen == 7            \* width of the 1 x MaskLen foreground mask

\* ------------------------------------------------------ program constants
ShadowThreshold == 244  \* cv2.threshold(fg_mask, 244, ...)
MaxVal == 255           \* cv2.threshold(..., 255, THRESH_BINARY)
KernelSize == 5         \* np.ones((5, 5))
ShadowValue == 127      \* MOG2 detectShadows=True marks shadows 127

\* --------------------------------------------------- configuration values
ClockStarts == {0, 3}         \* time.time() when the session starts
MinFramesValues == {1, 3}     \* config['camera']['min_motion_frames']
CooldownValues == {0, 2}      \* config['camera']['cooldown_seconds']
IntervalValues == {2, 3}      \* config['camera']['detection_interval']
ThresholdValues == {3}        \* config['camera']['motion_threshold']

VARIABLES
    pipeline,             \* which code drives the session: a detector class or the application
    now,                  \* time.time()
    motion_threshold,     \* self.motion_threshold (both classes)
    min_motion_frames,    \* MotionDetector.min_motion_frames
    cooldown_seconds,     \* MotionDetector.cooldown_seconds
    detection_interval,   \* LiveDetector.detection_interval
    md_cap,               \* MotionDetector.cap
    motion_frames,        \* MotionDetector.motion_frames
    last_motion_time,     \* MotionDetector.last_motion_time
    md_pc,                \* position of the process_stream generator
    ld_cap,               \* LiveDetector.cap
    last_detection_time,  \* LiveDetector.last_detection_time
    is_monitoring,        \* LiveDetector.is_monitoring
    ld_pc,                \* position of the process_live_stream generator
    ld_key,               \* local `key` of process_live_stream, held over a yield
    use_hand_tracking,    \* LiveDetector.use_hand_tracking
    hands,                \* LiveDetector.hands (the MediaPipe Hands object)
    app_pc,               \* position of CASCApplication in a monitoring run
    bg_trained,           \* self.background_subtractor has been applied to a frame
    frames,               \* history: frames read so far
    ndispatch,            \* history: events yielded so far
    ev,                   \* history: what the last frame evaluation did
    call                  \* history: what the last call did

vars == <<pipeline, now, motion_threshold, min_motion_frames, cooldown_seconds,
          detection_interval, md_cap, motion_frames, last_motion_time, md_pc,
          ld_cap, last_detection_time, is_monitoring, ld_pc, ld_key,
          use_hand_tracking, hands, app_pc, bg_trained, frames, ndispatch, ev, call>>

cfgVars == <<pipeline, motion_threshold, min_motion_frames, cooldown_seconds,
             detection_interval, use_hand_tracking>>
mdVars == <<md_cap, motion_frames, last_motion_time, md_pc>>
ldVars == <<ld_cap, last_detection_time, is_monitoring, ld_pc, ld_key, hands>>

\* ------------------------------------------------------------ motion gate
Pixels == {0, ShadowValue, MaxVal}
Masks == [1..MaskLen -> Pixels]

threshold_nonzero(src, thresh, maxval) ==
    [i \in DOMAIN src |-> IF src[i] > 0 THEN maxval ELSE 0]
\* cv2.threshold(src, thresh, maxval, THRESH_BINARY): maxval where src > thresh
threshold(src, thresh, maxval) ==
    [i \in DOMAIN src |-> IF src[i] > thresh THEN maxval ELSE 0]

\* the columns a KernelSize-wide kernel anchored at its centre covers at i;
\* columns outside the image are the border, which morphology ignores
Window(img, i) ==
    {j \in DOMAIN img : j >= i - (KernelSize \div 2) /\ j <= i + (KernelSize \div 2)}

Max(S) == CHOOSE x \in S : \A y \in S : y <= x
Min(S) == CHOOSE x \in S : \A y \in S : x <= y

dilate(img) == [i \in DOMAIN img |-> Max({img[j] : j \in Window(img, i)})]
erode(img) == [i \in DOMAIN img |-> Min({img[j] : j \in Window(img, i)})]

\* cv2.morphologyEx(img, MORPH_CLOSE, kernel): dilation followed by erosion
morphologyEx_CLOSE(img) == erode(dilate(img))

countNonZero(img) == Cardinality({i \in DOMAIN img : img[i] # 0})

\* the pixel count detect_motion computes from a foreground mask
motion_pixels_of(fg_mask) ==
    countNonZero(morphologyEx_CLOSE(threshold(fg_mask, ShadowThreshold, MaxVal)))

has_motion_ge(pixels, thr) == pixels >= thr
\* motion_pixels > self.motion_threshold
has_motion_of(pixels, thr) == pixels > thr

\* detect_motion(frame) -> (has_motion, motion_pixels)
detect_motion(fg_mask, thr) ==
    LET motion_pixels == motion_pixels_of(fg_mask)
    IN  [has_motion |-> has_motion_of(motion_pixels, thr),
         motion_pixels |-> motion_pixels]

\* LiveDetector.detect_motion: the same computation, line 119-131
ld_detect_motion(fg_mask, thr) ==
    LET motion_pixels == motion_pixels_of(fg_mask)
        has_motion == motion_pixels > thr
    IN  [has_motion |-> has_motion, motion_pixels |-> motion_pixels]

\* self.background_subtractor.apply(frame) (MOG2, line 15-17 and 30): `scene`
\* is the mask a subtractor that holds a background model returns for the
\* frame; on the first frame it is applied to the subtractor holds no model
\* yet, no pixel matches a background component and every pixel is foreground
apply(trained, scene) ==
    IF trained THEN scene ELSE [i \in DOMAIN scene |-> MaxVal]

\* a frame of a static scene: no pixel differs from the background
StaticScene(scene) == \A i \in DOMAIN scene : scene[i] = 0

\* the masks the frame loops are fed: empty, all shadow, a blob of exactly
\* threshold pixels, a blob one pixel larger, and a broken blob
PrefixMask(k) == [i \in 1..MaskLen |-> IF i <= k THEN MaxVal ELSE 0]
ShadowMask == [i \in 1..MaskLen |-> ShadowValue]
GapMask == [i \in 1..MaskLen |-> IF i % 2 = 1 /\ i <= 5 THEN MaxVal ELSE 0]
FrameMasks(thr) == {PrefixMask(0), ShadowMask, PrefixMask(thr), PrefixMask(thr + 1), GapMask}

\* ------------------------------------------------------- capture device
\* self.cap is "None", "opened" (an open VideoCapture) or "closed" (a
\* VideoCapture that failed to open or was released)

\* start_camera, line 59 / 23: self.cap is rebound to a new VideoCapture; a
\* handle that is still open is dropped without a release()
Replaces(cap) == IF cap = "opened" THEN "unreleased" ELSE "none"

\* ------------------------------------------------- MotionDetector scheduler
\* line 60-61 / 70-71: the counter after the motion test
CounterAfter_keep(has_motion, mf) == IF has_motion THEN mf + 1 ELSE mf
CounterAfter(has_motion, mf) == IF has_motion THEN mf + 1 ELSE 0

\* line 64
EnoughFrames_early(mf, min) == mf + 1 >= min
EnoughFrames(mf, min) == mf >= min

\* line 66
CooldownPassed_ge(current_time, last, cooldown) == current_time - last >= cooldown
CooldownPassed_always(current_time, last, cooldown) == TRUE
CooldownPassed(current_time, last, cooldown) == current_time - last > cooldown

\* line 68: the counter a dispatch leaves behind
CounterAfterDispatch_keep(mf) == mf
CounterAfterDispatch(mf) == 0

NoEv == [op |-> "none", has_motion |-> FALSE, static |-> FALSE, prev_cool |-> FALSE,
         detect_called |-> FALSE, threw |-> FALSE, faces |-> 0, prev_count |-> 0, count |-> 0,
         t |-> 0, prev_last |-> 0, dispatched |-> FALSE]

\* history of the last call, kept when it was a release(), raised or ended a
\* frame loop: which operation ran, whether the call before it was release()
\* too, the exception it raised, and why the frame loop ended
NoCall == [op |-> "none", second |-> FALSE, exc |-> "none", exit |-> "none"]
Call(op, exc, exit) ==
    IF op # "release" /\ exc = "none" /\ exit = "none"
    THEN NoCall
    ELSE [op |-> op, second |-> (op = "release" /\ call.op = "release"),
          exc |-> exc, exit |-> exit]

Init ==
    /\ pipeline \in {"motion", "live", "app"}
    /\ now \in ClockStarts
    /\ motion_threshold \in ThresholdValues
    /\ min_motion_frames \in (IF pipeline = "motion" THEN MinFramesValues ELSE {1})
    /\ cooldown_seconds \in (IF pipeline = "motion" THEN CooldownValues ELSE {0})
    /\ detection_interval \in (IF pipeline = "live" THEN IntervalValues ELSE {2})
    /\ use_hand_tracking \in (IF pipeline = "app" THEN BOOLEAN
                              ELSE {pipeline = "live"})
    /\ md_cap = "None"
    /\ motion_frames = 0
    /\ last_motion_time = 0
    /\ md_pc = "idle"
    /\ ld_cap = "None"
    /\ last_detection_time = 0
    /\ is_monitoring = FALSE
    /\ ld_pc = "idle"
    /\ ld_key = "none"
    /\ hands = IF use_hand_tracking THEN "open" ELSE "absent"
    /\ app_pc = "menu"
    /\ bg_trained = FALSE
    /\ frames = 0
    /\ ndispatch = 0
    /\ ev = NoEv
    /\ call = NoCall

\* time.time() advances
Tick ==
    /\ now < MaxTime
    /\ now' = now + 1
    /\ UNCHANGED <<cfgVars, mdVars, ldVars, app_pc, bg_trained, frames, ndispatch, ev, call>>

\* A method of a detector is called from outside only while its generator is
\* not executing: before it starts, while it is suspended at a yield, after it ended.
Outside(pc) == pc \in {"idle", "yield", "done", "raised"}

\* the body of a frame loop runs only while its generator is not suspended at
\* the yield: the consumer and the loop never run at the same time
LoopRuns_concurrent(pc) == pc \in {"loop", "yield"}
LoopRuns(pc) == pc = "loop"

\* the events one loop iteration hands out: the single yield statement
Yields_twice(fire) == IF fire THEN 2 ELSE 0
Yields(fire) == IF fire THEN 1 ELSE 0

\* process_stream, line 53-54: `if frame is None: break`
MD_AfterNoFrame == "done"

\* MotionDetector.start_camera
MD_start_camera(ok) ==
    /\ pipeline = "motion"
    /\ Outside(md_pc)
    /\ md_cap' = IF ok THEN "opened" ELSE "closed"
    /\ call' = Call("start_camera", IF ok THEN "none" ELSE "open", Replaces(md_cap))
    /\ UNCHANGED <<cfgVars, now, motion_frames, last_motion_time, md_pc, ldVars,
                   app_pc, bg_trained, frames, ndispatch, ev>>

\* MotionDetector.release
MD_release ==
    /\ pipeline = "motion"
    /\ Outside(md_pc)
    /\ md_cap' = IF md_cap = "None" THEN "None" ELSE "closed"
    /\ call' = Call("release", "none", "none")
    /\ UNCHANGED <<cfgVars, now, motion_frames, last_motion_time, md_pc, ldVars,
                   app_pc, bg_trained, frames, ndispatch, ev>>

\* the first next() on process_stream() enters the while loop
MD_Begin ==
    /\ pipeline = "motion"
    /\ md_pc \in {"idle", "done", "raised"}
    /\ md_pc' = "loop"
    /\ call' = Call("next", "none", "none")
    /\ UNCHANGED <<cfgVars, now, md_cap, motion_frames, last_motion_time, ldVars,
                   app_pc, bg_trained, frames, ndispatch, ev>>

\* one iteration of the while loop of process_stream, up to its yield or its end
MD_Frame(ret, scene, key) ==
    /\ pipeline = "motion"
    /\ LoopRuns(md_pc)
    /\ frames < MaxFrames
    /\ UNCHANGED <<cfgVars, now, md_cap, ldVars, app_pc>>
    /\ IF md_cap = "None"
       THEN \* self.cap.read() on None raises AttributeError
            /\ md_pc' = "raised"
            /\ call' = Call("next", "AttributeError", "AttributeError")
            /\ UNCHANGED <<motion_frames, last_motion_time, bg_trained, frames,
                           ndispatch, ev>>
       ELSE IF md_cap = "closed" \/ ~ret
       THEN \* capture_frame returns None: break
            /\ md_pc' = MD_AfterNoFrame
            /\ call' = Call("next", "none", "eos")
            /\ UNCHANGED <<motion_frames, last_motion_time, bg_trained, frames,
                           ndispatch, ev>>
       ELSE \E m \in {detect_motion(apply(bg_trained, scene), motion_threshold)} :
            LET current_time == now
                mf == CounterAfter(m.has_motion, motion_frames)
                fire == /\ m.has_motion
                        /\ EnoughFrames(mf, min_motion_frames)
                        /\ CooldownPassed(current_time, last_motion_time, cooldown_seconds)
                \* the frame before this one was a motion frame evaluated inside
                \* the cooldown window of a dispatch
                prev_cool == /\ ev.op = "process_stream" /\ ev.has_motion
                             /\ ~ev.dispatched /\ ndispatch >= 1
                             /\ ~CooldownPassed(ev.t, last_motion_time, cooldown_seconds)
            IN  /\ frames' = frames + 1
                /\ bg_trained' = TRUE
                /\ ev' = [op |-> "process_stream", has_motion |-> m.has_motion,
                          static |-> StaticScene(scene), prev_cool |-> prev_cool,
                          detect_called |-> FALSE, threw |-> FALSE, faces |-> 0,
                          prev_count |-> motion_frames, count |-> mf,
                          t |-> current_time, prev_last |-> last_motion_time,
                          dispatched |-> fire]
                /\ ndispatch' = ndispatch + Yields(fire)
                /\ IF fire
                   THEN /\ last_motion_time' = current_time
                        /\ motion_frames' = CounterAfterDispatch(mf)
                        /\ md_pc' = "yield"
                        /\ call' = Call("next", "none", "none")
                   ELSE /\ motion_frames' = mf
                        /\ UNCHANGED last_motion_time
                        /\ md_pc' = IF key = "q" THEN "done" ELSE "loop"
                        /\ call' = Call("next", "none", IF key = "q" THEN "quit" ELSE "none")

\* the consumer resumes the generator after a yield: cv2.waitKey, line 74
MD_Resume(key) ==
    /\ pipeline = "motion"
    /\ md_pc = "yield"
    /\ md_pc' = IF key = "q" THEN "done" ELSE "loop"
    /\ call' = Call("next", "none", IF key = "q" THEN "quit" ELSE "none")
    /\ UNCHANGED <<cfgVars, now, md_cap, motion_frames, last_motion_time, ldVars,
                   app_pc, bg_trained, frames, ndispatch, ev>>

\* --------------------------------------------------- LiveDetector scheduler
\* should_process_frame, line 136
ShouldProcess_always(current_time, last, interval) == TRUE
ShouldProcess(current_time, last, interval) == current_time - last >= interval

\* should_process_frame, line 137: the timer is written when the decision is
\* taken, before the frame is yielded
TimerAtDispatch_deferred(current_time, last) == last
TimerAtDispatch(current_time, last) == current_time

\* line 166-167: detect_faces runs on a frame only under `if has_motion`
DetectCalled_ungated(has_motion) == TRUE
DetectCalled(has_motion) == has_motion

\* line 171: should_process_frame, the only place that writes the timer, is
\* called only when a face was found, and writes only when the interval passed
TimerWritten_eager(faces, passed) == passed
TimerWritten(faces, passed) == faces > 0 /\ passed

\* line 214-220: the yield stands before the test of the key read at line 211
AfterAdmission_dropped(key) == IF key = "q" THEN "done" ELSE "yield"
AfterAdmission(key) == "yield"

ShouldAnalyze_debounced(faces, current_time, last, interval) ==
    /\ faces > 0 /\ ShouldProcess(current_time, last, interval)
    /\ motion_frames >= min_motion_frames
\* line 171: len(faces) > 0 and self.should_process_frame()
ShouldAnalyze_nofaces(faces, current_time, last, interval) ==
    ShouldProcess(current_time, last, interval)
ShouldAnalyze(faces, current_time, last, interval) ==
    faces > 0 /\ ShouldProcess(current_time, last, interval)

\* process_live_stream, line 153-155: `if not ret: ... break`
LD_AfterNoFrame_continue == "loop"
LD_AfterNoFrame == "done"

\* line 151: while self.is_monitoring
LoopCondition_true(monitoring) == TRUE
LoopCondition(monitoring) == monitoring

\* self.hands.close() (MediaPipe SolutionBase.close): closes the graph; on a
\* Hands object that is already closed it raises
HandsClose(h) == [hands |-> "closed", exc |-> IF h = "closed" THEN "close" ELSE "none"]

\* LiveDetector.release, line 236-240: what it leaves behind and what it raises
ReleaseExc ==
    IF use_hand_tracking THEN HandsClose(hands).exc ELSE "none"
ReleaseEffect ==
    /\ is_monitoring' = FALSE
    /\ ld_cap' = IF ld_cap = "None" THEN "None" ELSE "closed"
    /\ hands' = IF use_hand_tracking THEN HandsClose(hands).hands ELSE hands

\* LiveDetector.start_camera
LD_start_camera(ok) ==
    /\ pipeline = "live"
    /\ Outside(ld_pc)
    /\ ld_cap' = IF ok THEN "opened" ELSE "closed"
    /\ call' = Call("start_camera", IF ok THEN "none" ELSE "open", Replaces(ld_cap))
    /\ UNCHANGED <<cfgVars, now, mdVars, last_detection_time, is_monitoring, ld_pc,
                   ld_key, hands, app_pc, bg_trained, frames, ndispatch, ev>>

\* LiveDetector.release
LD_release ==
    /\ pipeline = "live"
    /\ Outside(ld_pc)
    /\ ReleaseEffect
    /\ call' = Call("release", ReleaseExc, "none")
    /\ UNCHANGED <<cfgVars, now, mdVars, last_detection_time, ld_pc, ld_key,
                   app_pc, bg_trained, frames, ndispatch, ev>>

\* the consumer of process_live_stream is in next(): any caller in the free
\* use of the class, the for loop of the monitoring run in the application
InNext ==
    \/ pipeline = "live"
    \/ pipeline = "app" /\ app_pc = "run"

\* process_live_stream, line 143: every call sets self.is_monitoring = True
MonitoringAtStart_kept == is_monitoring
MonitoringAtStart == TRUE

\* the first next() on process_live_stream(): line 143, then the while loop
LD_Begin ==
    /\ InNext
    /\ ld_pc \in (IF pipeline = "app" THEN {"idle"} ELSE {"idle", "done", "raised"})
    /\ is_monitoring' = MonitoringAtStart
    /\ ld_pc' = "loop"
    /\ call' = Call("next", "none", "none")
    /\ UNCHANGED <<cfgVars, now, mdVars, ld_cap, last_detection_time, ld_key, hands,
                   app_pc, bg_trained, frames, ndispatch, ev>>

\* one iteration of the while loop of process_live_stream, up to its yield or its end
LD_Frame(ret, scene, nfaces, throws, key) ==
    /\ InNext
    /\ LoopRuns(ld_pc)
    /\ frames < MaxLiveFrames
    /\ UNCHANGED <<cfgVars, now, mdVars, ld_cap, hands, app_pc>>
    /\ IF ~LoopCondition(is_monitoring)
       THEN \* while self.is_monitoring
            /\ ld_pc' = "done"
            /\ call' = Call("next", "none", "while")
            /\ UNCHANGED <<last_detection_time, is_monitoring, ld_key, bg_trained,
                           frames, ndispatch, ev>>
       ELSE IF ld_cap = "None"
       THEN \* self.cap.read() on None raises AttributeError
            /\ ld_pc' = "raised"
            /\ call' = Call("next", "AttributeError", "AttributeError")
            /\ UNCHANGED <<last_detection_time, is_monitoring, ld_key, bg_trained,
                           frames, ndispatch, ev>>
       ELSE IF ld_cap = "closed" \/ ~ret
       THEN \* "Can't receive frame": break
            /\ ld_pc' = LD_AfterNoFrame
            /\ call' = Call("next", "none", "eos")
            /\ UNCHANGED <<last_detection_time, is_monitoring, ld_key, bg_trained,
                           frames, ndispatch, ev>>
       ELSE \E m \in {ld_detect_motion(apply(bg_trained, scene), motion_threshold)} :
            LET called == DetectCalled(m.has_motion)
                threw == called /\ throws
                faces == IF called /\ ~threw THEN nfaces ELSE 0
                current_time == now
                should_analyze ==
                    /\ called /\ ~threw
                    /\ ShouldAnalyze(faces, current_time, last_detection_time,
                                     detection_interval)
                written ==
                    /\ called /\ ~threw
                    /\ TimerWritten(faces, ShouldProcess(current_time, last_detection_time,
                                                         detection_interval))
                timer == IF written
                         THEN TimerAtDispatch(current_time, last_detection_time)
                         ELSE last_detection_time
            IN  /\ frames' = frames + 1
                /\ bg_trained' = TRUE
                /\ ev' = [op |-> "process_live_stream", has_motion |-> m.has_motion,
                          static |-> StaticScene(scene), prev_cool |-> FALSE,
                          detect_called |-> called, threw |-> threw, faces |-> faces,
                          prev_count |-> 0, count |-> 0,
                          t |-> current_time, prev_last |-> last_detection_time,
                          dispatched |-> should_analyze]
                /\ ndispatch' = ndispatch + Yields(should_analyze)
                /\ IF threw
                   THEN \* detect_faces raises: nothing in the loop catches it
                        /\ ld_pc' = "raised"
                        /\ call' = Call("next", "detect_faces", "detect_faces")
                        /\ UNCHANGED <<last_detection_time, is_monitoring, ld_key>>
                   ELSE IF should_analyze
                   THEN /\ last_detection_time' = timer
                        /\ ld_key' = key
                        /\ ld_pc' = AfterAdmission(key)
                        /\ call' = Call("next", "none", "none")
                        /\ UNCHANGED is_monitoring
                   ELSE /\ last_detection_time' = timer
                        /\ UNCHANGED ld_key
                        /\ is_monitoring' = IF key = "q" THEN FALSE ELSE is_monitoring
                        /\ ld_pc' = IF key = "q" THEN "done" ELSE "loop"
                        /\ call' = Call("next", "none", IF key = "q" THEN "quit" ELSE "none")

\* the consumer resumes the generator after a yield: the key test, line 218
LD_Resume ==
    /\ InNext
    /\ ld_pc = "yield"
    /\ is_monitoring' = IF ld_key = "q" THEN FALSE ELSE is_monitoring
    /\ ld_pc' = IF ld_key = "q" THEN "done" ELSE "loop"
    /\ ld_key' = "none"
    /\ call' = Call("next", "none", IF ld_key = "q" THEN "quit" ELSE "none")
    /\ UNCHANGED <<cfgVars, now, mdVars, ld_cap, last_detection_time, hands,
                   app_pc, bg_trained, frames, ndispatch, ev>>

\* LiveDetector.capture_single_frame
LD_capture_single_frame(ok, ret, nfaces) ==
    /\ pipeline = "live"
    /\ Outside(ld_pc)
    /\ UNCHANGED <<cfgVars, now, mdVars, last_detection_time, is_monitoring, ld_pc,
                   ld_key, hands, app_pc, bg_trained, frames, ndispatch>>
    /\ IF ld_cap # "opened" /\ ~ok
       THEN \* start_camera raises "Could not open camera"
            /\ ld_cap' = "closed"
            /\ call' = Call("capture_single_frame", "open", "none")
            /\ UNCHANGED ev
       ELSE /\ ld_cap' = "opened"
            /\ call' = Call("capture_single_frame", "none", "none")
            /\ IF ret
               THEN \* no clock is read and the frame loop's counters are not touched
                    /\ ev' = [op |-> "capture_single_frame", has_motion |-> FALSE,
                              static |-> FALSE, prev_cool |-> FALSE,
                              detect_called |-> TRUE, threw |-> FALSE, faces |-> nfaces,
                              prev_count |-> 0, count |-> 0,
                              t |-> 0, prev_last |-> 0,
                              dispatched |-> FALSE]
               ELSE UNCHANGED ev

\* ------------------------------ CASCApplication.run_live_monitoring_with_deepface
\* line 603: start_camera() is called before the try block; when the device
\* does not open it raises and the run ends there
StartOutcome_ignored(ok) == "sleep"
StartOutcome(ok) == IF ok THEN "sleep" ELSE "crashed"

\* menu option 1: line 603
App_start_camera(ok) ==
    /\ pipeline = "app"
    /\ app_pc = "menu"
    /\ ld_cap' = IF ok THEN "opened" ELSE "closed"
    /\ app_pc' = StartOutcome(ok)
    /\ call' = Call("start_camera", IF ok THEN "none" ELSE "open", Replaces(ld_cap))
    /\ UNCHANGED <<cfgVars, now, mdVars, last_detection_time, is_monitoring, ld_pc,
                   ld_key, hands, bg_trained, frames, ndispatch, ev>>

\* line 605-613: time.sleep(1), still before the try block, then the for loop
\* creates the generator; Ctrl-C during the sleep leaves the method at once
App_sleep(interrupt) ==
    /\ pipeline = "app"
    /\ app_pc = "sleep"
    /\ IF interrupt
       THEN /\ app_pc' = "crashed"
            /\ call' = Call("sleep", "KeyboardInterrupt", "interrupt")
            /\ UNCHANGED <<ld_pc, ld_key>>
       ELSE /\ app_pc' = "run"
            /\ ld_pc' = "idle"
            /\ ld_key' = "none"
            /\ call' = Call("sleep", "none", "none")
    /\ UNCHANGED <<cfgVars, now, mdVars, ld_cap, last_detection_time, is_monitoring,
                   hands, bg_trained, frames, ndispatch, ev>>

\* menu option 4, then 2: _add_known_person_deepface (line 787-845; the same
\* steps in _add_known_person_from_camera, line 481-558) calls start_camera(),
\* reads frames from self.live_detector.cap until a key or a failed read, and
\* returns to the menu without a release(); a start_camera() that raises is
\* caught nowhere
App_add_known_person(ok) ==
    /\ pipeline = "app"
    /\ app_pc = "menu"
    /\ ld_cap' = IF ok THEN "opened" ELSE "closed"
    /\ app_pc' = IF ok THEN "menu" ELSE "crashed"
    /\ call' = Call("add_known_person", IF ok THEN "none" ELSE "open", Replaces(ld_cap))
    /\ UNCHANGED <<cfgVars, now, mdVars, last_detection_time, is_monitoring, ld_pc,
                   ld_key, hands, bg_trained, frames, ndispatch, ev>>

\* line 690-694: except KeyboardInterrupt / finally: release().  The run goes
\* back to the menu when nothing is left to propagate, and ends the program
\* (main() catches nothing) when the exception is another one or release() raises
AfterFinally(cause) ==
    IF ReleaseExc # "none" \/ cause \in {"downstream", "detect_faces", "AttributeError"}
    THEN "crashed" ELSE "menu"

\* the downstream analysis of a yielded event (line 614-688) fails: an
\* exception of a collaborator, or Ctrl-C while it runs
App_body_fails(cause) ==
    /\ pipeline = "app"
    /\ app_pc = "run"
    /\ ld_pc = "yield"
    /\ ReleaseEffect
    /\ ld_pc' = "done"
    /\ ld_key' = "none"
    /\ app_pc' = AfterFinally(cause)
    /\ call' = Call("release", ReleaseExc, cause)
    /\ UNCHANGED <<cfgVars, now, mdVars, last_detection_time, bg_trained, frames,
                   ndispatch, ev>>

\* Ctrl-C while the for loop is inside next(), in the frame loop
App_interrupt ==
    /\ pipeline = "app"
    /\ app_pc = "run"
    /\ ld_pc \in {"idle", "loop"}
    /\ ReleaseEffect
    /\ ld_pc' = "raised"
    /\ app_pc' = AfterFinally("interrupt")
    /\ call' = Call("release", ReleaseExc, "interrupt")
    /\ UNCHANGED <<cfgVars, now, mdVars, last_detection_time, ld_key, bg_trained,
                   frames, ndispatch, ev>>

\* the generator has ended (StopIteration) or raised: the for loop is left
App_finally ==
    /\ pipeline = "app"
    /\ app_pc = "run"
    /\ ld_pc \in {"done", "raised"}
    /\ ReleaseEffect
    /\ app_pc' = AfterFinally(call.exit)
    /\ call' = Call("release", ReleaseExc, call.exit)
    /\ UNCHANGED <<cfgVars, now, mdVars, last_detection_time, ld_pc, ld_key,
                   bg_trained, frames, ndispatch, ev>>

FaceCounts == {0, 1}

Keys == {"q", "other"}

BodyFailures == {"downstream", "downstream_interrupt"}

\* the inputs of one read: a failed read carries no frame, a detector that
\* throws returns no faces, capture_single_frame opens the camera only when
\* it is not open
MD_Reads ==
    {<<FALSE, PrefixMask(0), "other">>}
    \cup {<<TRUE, m, k>> : m \in FrameMasks(motion_threshold), k \in Keys}
LD_Reads ==
    {<<FALSE, PrefixMask(0), 0, FALSE, "other">>}
    \cup {<<TRUE, m, f, FALSE, k>> :
              m \in FrameMasks(motion_threshold), f \in FaceCounts, k \in Keys}
    \cup {<<TRUE, m, 0, TRUE, k>> : m \in FrameMasks(motion_threshold), k \in Keys}
LD_SingleReads ==
    {<<ok, FALSE, 0>> : ok \in BOOLEAN} \cup {<<TRUE, TRUE, f>> : f \in FaceCounts}

Next ==
    \/ Tick
    \/ \E ok \in BOOLEAN : MD_start_camera(ok)
    \/ MD_release
    \/ MD_Begin
    \/ \E r \in MD_Reads : MD_Frame(r[1], r[2], r[3])
    \/ \E key \in Keys : MD_Resume(key)
    \/ \E ok \in BOOLEAN : LD_start_camera(ok)
    \/ LD_release
    \/ LD_Begin
    \/ \E r \in LD_Reads : LD_Frame(r[1], r[2], r[3], r[4], r[5])
    \/ LD_Resume
    \/ \E r \in LD_SingleReads : LD_capture_single_frame(r[1], r[2], r[3])
    \/ \E ok \in BOOLEAN : App_start_camera(ok)
    \/ \E ok \in BOOLEAN : App_add_known_person(ok)
    \/ \E interrupt \in BOOLEAN : App_sleep(interrupt)
    \/ \E cause \in BodyFailures : App_body_fails(cause)
    \/ App_interrupt
    \/ App_finally

Spec == Init /\ [][Next]_vars

\* ------------------------------------------- the motion gate on its own
\* detect_motion of both classes applied to one foreground mask
Gate_detect_motion ==
    /\ pipeline = "gate"
    /\ ev.op = "frame"
    /\ ev' = [op |-> "detect_motion", fg_mask |-> ev.fg_mask,
              md |-> detect_motion(ev.fg_mask, motion_threshold),
              ld |-> ld_detect_motion(ev.fg_mask, motion_threshold)]
    /\ UNCHANGED <<cfgVars, now, mdVars, ldVars, app_pc, bg_trained, frames, ndispatch, call>>

InitGate ==
    /\ pipeline = "gate"
    /\ now = 0
    /\ motion_threshold \in 0..MaskLen
    /\ min_motion_frames = 1
    /\ cooldown_seconds = 0
    /\ detection_interval = 0
    /\ md_cap = "None"
    /\ motion_frames = 0
    /\ last_motion_time = 0
    /\ md_pc = "idle"
    /\ ld_cap = "None"
    /\ last_detection_time = 0
    /\ is_monitoring = FALSE
    /\ ld_pc = "idle"
    /\ ld_key = "none"
    /\ use_hand_tracking = FALSE
    /\ hands = "absent"
    /\ app_pc = "menu"
    /\ bg_trained = FALSE
    /\ call = NoCall
    /\ frames = 0
    /\ ndispatch = 0
    /\ \E fg_mask \in Masks : ev = [op |-> "frame", fg_mask |-> fg_mask]

NextGate == Gate_detect_motion

SpecGate == InitGate /\ [][NextGate]_vars

\* ================================================================ claims
MDEval == ev.op = "process_stream"
LDEval == ev.op = "process_live_stream"
\* events yielded before the frame ev describes
PriorDispatches == ndispatch - (IF ev.dispatched THEN 1 ELSE 0)
Elapsed == ev.t - ev.prev_last

\* C1: in process_stream a dispatching frame lies at least cooldown_seconds
\* after the previous dispatch; a frame evaluated while less than
\* cooldown_seconds has elapsed since the last dispatch does not dispatch,
\* whatever its motion signal.
C1_CooldownSeparation ==
    (MDEval /\ PriorDispatches >= 1) =>
        /\ ev.dispatched => Elapsed >= cooldown_seconds
        /\ Elapsed < cooldown_seconds => ~ev.dispatched

C1_Witness ==
    MDEval /\ ev.dispatched /\ PriorDispatches >= 1 /\ cooldown_seconds > 0

\* C2 (as claimed): from a fresh detector the first dispatch of process_stream
\* falls exactly on the min_motion_frames-th consecutive motion frame: never
\* on an earlier frame, and on that frame without fail.
C2_FirstDispatchOnMinFrame ==
    (MDEval /\ PriorDispatches = 0) =>
        /\ ev.dispatched => ev.count >= min_motion_frames
        /\ (ev.has_motion /\ ev.count = min_motion_frames) => ev.dispatched

\* C3 (as claimed): every dispatch, on either path, is on a frame with motion,
\* a positive result of the local detector, and (where a counter exists) a
\* counter that has reached min_motion_frames.
C3_Original ==
    ((MDEval \/ LDEval) /\ ev.dispatched) =>
        /\ ev.has_motion
        /\ ev.detect_called /\ ev.faces > 0
        /\ MDEval => ev.count >= min_motion_frames

\* C3 (amended): every dispatch is on a frame with motion; process_stream
\* needs the counter at min_motion_frames and consults no local detector,
\* process_live_stream needs a positive face detection and no run of frames.
C3_Amended ==
    /\ (MDEval /\ ev.dispatched) =>
          ev.has_motion /\ ev.count >= min_motion_frames /\ ~ev.detect_called
    /\ (LDEval /\ ev.dispatched) =>
          ev.has_motion /\ ev.detect_called /\ ev.faces > 0

C3_Witness ==
    MDEval /\ ev.dispatched /\ ev.count = min_motion_frames /\ min_motion_frames > 1

\* C4: right after a dispatch of process_stream (the generator is suspended at
\* its yield) motion_frames is 0 and last_motion_time is the time of the
\* dispatching frame; a frame evaluated no more than cooldown_seconds after
\* the last dispatch does not dispatch.
C4_AfterDispatch ==
    /\ md_pc = "yield" =>
          /\ MDEval /\ ev.dispatched
          /\ motion_frames = 0
          /\ last_motion_time = ev.t
    /\ (MDEval /\ ev.dispatched) => (motion_frames = 0 /\ last_motion_time = ev.t)
    /\ (MDEval /\ PriorDispatches >= 1 /\ Elapsed <= cooldown_seconds) => ~ev.dispatched

C4_Witness ==
    md_pc = "yield" /\ ev.count > 1 /\ now = last_motion_time

\* C5: a frame without motion leaves motion_frames at 0 whatever the counter
\* was (idle, mid-arming, accumulated during cooldown) and never dispatches;
\* a motion frame counts one more than the counter it found, so the frame
\* after a reset counts 1.
C5_NonMotionResets ==
    MDEval =>
        /\ ~ev.has_motion => (motion_frames = 0 /\ ev.count = 0 /\ ~ev.dispatched)
        /\ ev.has_motion => ev.count = ev.prev_count + 1
        /\ (ev.has_motion /\ ~ev.dispatched) => motion_frames = ev.count

C5_Witness ==
    MDEval /\ ~ev.has_motion /\ ev.prev_count > 0 /\ ev.prev_count < min_motion_frames

\* C6 (as claimed): a frame evaluated when now - last_dispatch_time >=
\* cooldown_seconds, with motion and the counter at min_motion_frames,
\* dispatches (stated for cooldown_seconds > 0, where "elapsed" means time
\* that has passed).
C6_Original ==
    (/\ MDEval /\ PriorDispatches >= 1 /\ cooldown_seconds > 0
     /\ ev.has_motion /\ ev.count >= min_motion_frames
     /\ Elapsed >= cooldown_seconds) => ev.dispatched

\* C6 (amended): cooldown ends exclusively. A frame with motion and the counter
\* at min_motion_frames dispatches when now - last_motion_time >
\* cooldown_seconds; a frame on which exactly cooldown_seconds have elapsed
\* does not dispatch.
C6_Amended ==
    MDEval =>
        /\ (ev.has_motion /\ ev.count >= min_motion_frames
              /\ Elapsed > cooldown_seconds) => ev.dispatched
        /\ Elapsed = cooldown_seconds => ~ev.dispatched

C6_Witness ==
    /\ MDEval /\ PriorDispatches >= 1 /\ cooldown_seconds > 0
    /\ ev.dispatched /\ Elapsed = cooldown_seconds + 1

\* C7: in process_live_stream a dispatching frame lies at least
\* detection_interval after the previous dispatch.
C7_IntervalSeparation ==
    (LDEval /\ PriorDispatches >= 1) =>
        /\ ev.dispatched => Elapsed >= detection_interval
        /\ Elapsed < detection_interval => ~ev.dispatched

C7_Witness ==
    LDEval /\ ev.dispatched /\ PriorDispatches >= 1 /\ ev.faces > 0
           /\ Elapsed = detection_interval

\* C8: every event process_live_stream yields comes from a frame on which the
\* motion gate returned true and the face detector returned a region, however
\* long ago the last dispatch was; a frame without them yields nothing.
C8_NoDispatchOnTimeAlone ==
    LDEval =>
        /\ ev.dispatched => (ev.has_motion /\ ev.faces >= 1)
        /\ (~ev.has_motion \/ ev.faces = 0) => (~ev.dispatched /\ last_detection_time = ev.prev_last)

C8_Witness ==
    LDEval /\ ~ev.dispatched /\ ev.has_motion /\ Elapsed > detection_interval

\* C9 (as claimed): whenever detect_faces ran on a frame, the motion gate had
\* returned true for that frame.
C9_Original ==
    ev.detect_called => ev.has_motion

\* C9 (amended): inside process_live_stream detect_faces runs exactly on the
\* frames whose motion gate returned true; capture_single_frame runs it on
\* every frame it captures, with no motion gate.
C9_Amended ==
    /\ LDEval => (ev.detect_called <=> ev.has_motion)
    /\ (LDEval /\ ~ev.has_motion) => ev.faces = 0
    /\ ev.op = "capture_single_frame" => (ev.detect_called /\ ~ev.has_motion)

C9_Witness ==
    LDEval /\ ev.detect_called /\ ev.faces > 0 /\ ~ev.dispatched

\* C10: detect_motion (both classes) returns has_motion = motion_pixels >
\* motion_threshold, strictly, with the pixel count of the mask: a count equal
\* to the threshold is not motion, an empty or all-shadow mask counts 0, and
\* every foreground pixel of the mask is counted.
Foreground(fg_mask) == {i \in DOMAIN fg_mask : fg_mask[i] = MaxVal}

C10_StrictGate ==
    ev.op = "detect_motion" =>
        /\ \A r \in {ev.md, ev.ld} :
              /\ r.has_motion <=> (r.motion_pixels > motion_threshold)
              /\ r.motion_pixels = motion_threshold => ~r.has_motion
              /\ r.motion_pixels >= Cardinality(Foreground(ev.fg_mask))
              /\ r.motion_pixels <= MaskLen
              /\ Foreground(ev.fg_mask) = {} => r.motion_pixels = 0
        /\ ev.md = ev.ld

C10_Witness ==
    /\ ev.op = "detect_motion"
    /\ ev.md.motion_pixels = motion_threshold /\ motion_threshold > 0
    /\ ~ev.md.has_motion

\* --------------------------------------------- claims on the session life cycle
LiveSession == pipeline \in {"live", "app"}
\* the last call was a next() that ended the frame loop for the given reason
LoopEnded(reason) == call.op = "next" /\ call.exit = reason
\* the monitoring run has just left its finally block for the given reason
RunEnded(reason) == pipeline = "app" /\ call.op = "release" /\ call.exit = reason

\* C11: one iteration of the frame loop (process_stream, process_live_stream)
\* yields at most one event, and the last-dispatch timestamp changes only in
\* an iteration that yields, to the time of that iteration.
C11_SingleDispatch ==
    [][ /\ ndispatch' \in {ndispatch, ndispatch + 1}
        /\ last_motion_time' # last_motion_time =>
              (ndispatch' = ndispatch + 1 /\ last_motion_time' = ev'.t)
        /\ last_detection_time' # last_detection_time =>
              (ndispatch' = ndispatch + 1 /\ last_detection_time' = ev'.t) ]_vars

C11_Witness ==
    /\ ev.dispatched /\ ndispatch = 2
    /\ \/ MDEval /\ last_motion_time = ev.t /\ ev.count >= min_motion_frames
       \/ LDEval /\ last_detection_time = ev.t /\ ev.faces > 0

\* C12 (as claimed): a release() that directly follows a release() does not raise.
C12_ReleaseIdempotent ==
    (call.op = "release" /\ call.second) => call.exc = "none"

\* a stop signal is pending on process_live_stream: the generator is suspended
\* at a yield with the quit key read, or is_monitoring was cleared under it
StopPending ==
    /\ LiveSession
    /\ \/ ld_pc = "yield" /\ (ld_key = "q" \/ ~is_monitoring)
       \/ ld_pc = "loop" /\ ~is_monitoring

\* C13 (as claimed): once the quit key has been read, no event is emitted:
\* the generator is never suspended at a yield with the quit key in `key`.
C13_NoDispatchAfterStop ==
    (LiveSession /\ ld_key = "q") => ld_pc # "yield"

\* C13 (amended): while a stop signal is pending, no step dispatches, and the
\* step that runs the generator on reads no frame and leaves the loop, or
\* goes to the loop condition, which then ends it.  The event of the iteration
\* that polled the quit key is the last one.
C13_StopEndsLoop ==
    [][ StopPending =>
          /\ ndispatch' = ndispatch
          /\ ld_pc' # ld_pc =>
                /\ frames' = frames
                /\ ld_pc' = IF ld_pc = "yield" /\ ld_key # "q" THEN "loop" ELSE "done" ]_vars

C13_Witness ==
    /\ LiveSession /\ ld_pc = "done" /\ ev.dispatched /\ frames < MaxLiveFrames
    /\ LoopEnded("quit")

\* C14 (as claimed): whenever the monitoring run has ended, back at the menu
\* or by an exception, the capture device start_camera opened is released.
C14_ReleasedOnEveryExit ==
    (pipeline = "app" /\ app_pc \in {"menu", "crashed"}) => ld_cap # "opened"

\* C15: a read that returns no frame ends the generator without an exception
\* (no further read, no further dispatch), and the monitoring run that it
\* ends has then released the capture device and the detector resources.
C15_EndOfStream ==
    /\ LoopEnded("eos") =>
          /\ call.exc = "none"
          /\ pipeline = "motion" => md_pc = "done"
          /\ LiveSession => ld_pc = "done"
    /\ RunEnded("eos") =>
          /\ ld_pc = "done" /\ ld_cap = "closed" /\ ~is_monitoring /\ hands # "open"
          /\ app_pc # "run"

C15_Witness ==
    RunEnded("eos") /\ app_pc = "menu" /\ frames >= 1 /\ ld_cap = "closed"

\* C16: a start_camera that cannot open the device raises, and the monitoring
\* run ends there: the frame loop is not running, and no frame was read and
\* no event dispatched in a session whose first start_camera fails.
C16_OpenFailure ==
    /\ (call.op = "start_camera" /\ call.exc = "open") =>
          /\ pipeline = "motion" => md_cap = "closed"
          /\ LiveSession => ld_cap = "closed"
    /\ (pipeline = "app" /\ call.op = "start_camera" /\ call.exc = "open") =>
          /\ app_pc = "crashed"
          /\ ld_pc \notin {"loop", "yield"} /\ ~is_monitoring
          /\ ld_pc = "idle" => (frames = 0 /\ ndispatch = 0)

C16_Witness ==
    /\ pipeline = "app" /\ call.op = "start_camera" /\ call.exc = "open"
    /\ app_pc = "crashed" /\ ld_pc = "idle" /\ frames = 0

\* C17 (as claimed): a frame on which detect_faces threw dispatches nothing,
\* leaves the timer alone, and the loop goes on without an exception.
C17_DetectorFailureTolerated ==
    (LDEval /\ ev.threw) =>
        /\ ~ev.dispatched /\ last_detection_time = ev.prev_last
        /\ call.exc = "none" /\ ld_pc # "raised"

\* C18 (as claimed): a read that fails on an open device does not end the
\* frame loop.
C18_FailedReadKeepsRunning ==
    /\ (pipeline = "motion" /\ LoopEnded("eos") /\ md_cap = "opened") => md_pc = "loop"
    /\ (LiveSession /\ LoopEnded("eos") /\ ld_cap = "opened") => ld_pc = "loop"

\* C19: when the downstream handling of a dispatched event has failed, the
\* timer holds the time of that dispatch, and every later dispatch in the
\* application lies at least detection_interval after the one before it.
C19_TimerSurvivesFailure ==
    /\ (\E cause \in BodyFailures : RunEnded(cause)) =>
          (ev.dispatched /\ last_detection_time = ev.t)
    /\ (pipeline = "app" /\ ev.dispatched /\ PriorDispatches >= 1) =>
          (Elapsed >= detection_interval /\ last_detection_time = ev.t)

C19_Witness ==
    /\ RunEnded("downstream_interrupt") /\ app_pc = "menu"
    /\ ev.dispatched /\ last_detection_time = ev.t /\ now > ev.t

\* C20: while an event is with the consumer (the generator is suspended at its
\* yield) no event is produced and the counter and the last-dispatch times do
\* not change; an event is produced only by a step of the running loop.
C20_OneInFlight ==
    [][ /\ (md_pc = "yield" \/ ld_pc = "yield") =>
              UNCHANGED <<ndispatch, motion_frames, last_motion_time,
                          last_detection_time>>
        /\ ndispatch' # ndispatch => (md_pc = "loop" \/ ld_pc = "loop") ]_vars

C20_Witness ==
    /\ pipeline = "app" /\ app_pc = "run" /\ ld_pc = "yield"
    /\ now >= ev.t + detection_interval /\ last_detection_time = ev.t

FoldShadow(fg_mask) ==
    [i \in DOMAIN fg_mask |-> IF fg_mask[i] = MaxVal THEN MaxVal ELSE 0]

\* C24 (as claimed): only the full-foreground pixels of the mask contribute to
\* the pixel count detect_motion computes.
C24_OnlyForegroundCounts ==
    ev.op = "detect_motion" =>
        \A r \in {ev.md, ev.ld} : r.motion_pixels = Cardinality(Foreground(ev.fg_mask))

\* C24 (amended): the threshold sets every pixel of value at most 244
\* (background and shadow) to 0, so detect_motion counts a mask exactly as it
\* counts the same mask with its shadow pixels replaced by background, and
\* counts 0 when the mask has no full-foreground pixel; the closing that
\* follows can add pixels lying between full-foreground pixels to the count.
C24_ShadowIsBackground ==
    ev.op = "detect_motion" =>
        /\ threshold(ev.fg_mask, ShadowThreshold, MaxVal) = FoldShadow(ev.fg_mask)
        /\ \A r \in {ev.md, ev.ld} :
              /\ r.motion_pixels = motion_pixels_of(FoldShadow(ev.fg_mask))
              /\ Foreground(ev.fg_mask) = {} => r.motion_pixels = 0

C24_Witness ==
    /\ ev.op = "detect_motion"
    /\ ev.fg_mask[1] = MaxVal /\ ev.fg_mask[2] = ShadowValue /\ ev.fg_mask[3] = MaxVal
    /\ ev.md.motion_pixels > Cardinality(Foreground(ev.fg_mask))

\* C22 (as claimed): once a monitoring run on the detector has been stopped
\* and released, the detector emits no further event.
C22_NotRestartable ==
    (pipeline = "app" /\ hands = "closed") => ld_pc # "yield"

\* C22 (amended): a frame loop that has ended emits nothing more, but the
\* detector can be started again: every event comes from a monitoring run in
\* progress, whose start_camera opened the device and whose call of
\* process_live_stream set is_monitoring, also after an earlier run was stopped.
C22_EventsOnlyFromRunInProgress ==
    /\ (pipeline = "app" /\ ld_pc \in {"loop", "yield"}) =>
          (app_pc = "run" /\ is_monitoring /\ ld_cap = "opened")
    /\ (pipeline = "app" /\ call.op = "release") =>
          (~is_monitoring /\ ld_pc \in {"done", "raised"})

C22_Witness ==
    /\ pipeline = "app" /\ app_pc = "run" /\ ld_pc = "yield" /\ is_monitoring
    /\ hands = "closed" /\ ndispatch = 2

\* ----------------------------------------------- claims on the two policies
\* C25: a run applies one policy.  The decision of process_stream is a
\* function of has_motion, the consecutive counter and the cooldown timer,
\* and the run never touches the interval timer; the decision of
\* process_live_stream is a function of has_motion, the face count and the
\* interval timer, and the run never touches the counter or the cooldown timer.
C25_OnePolicyPerRun ==
    /\ pipeline = "motion" =>
          /\ last_detection_time = 0
          /\ MDEval => (ev.dispatched <=>
                          /\ ev.has_motion
                          /\ ev.count >= min_motion_frames
                          /\ Elapsed > cooldown_seconds)
    /\ LiveSession =>
          /\ motion_frames = 0 /\ last_motion_time = 0
          /\ LDEval => (ev.dispatched <=>
                          /\ ev.has_motion
                          /\ ev.faces > 0
                          /\ Elapsed >= detection_interval)

C25_Witness ==
    /\ LDEval /\ ev.dispatched /\ ndispatch = 2 /\ Elapsed >= detection_interval
    /\ motion_frames = 0 /\ last_motion_time = 0 /\ last_detection_time = ev.t

\* C26 (as claimed): motion frames seen while the cooldown suppressed dispatch
\* do not let the first motion frame after the cooldown dispatch on its own:
\* a frame that follows a motion frame of the cooldown window dispatches only
\* when one motion frame is all a dispatch takes.
C26_RearmAfterCooldown ==
    (MDEval /\ ev.dispatched /\ ev.prev_cool /\ cooldown_seconds > 0) =>
        min_motion_frames = 1

\* C27: in process_live_stream the timer after a frame is the time of that
\* frame when the frame is yielded and the value it had before otherwise: a
\* frame without motion, without a face, or before the interval has elapsed
\* leaves it unchanged.
C27_TimerOnlyOnDispatch ==
    LDEval =>
        /\ last_detection_time = (IF ev.dispatched THEN ev.t ELSE ev.prev_last)
        /\ (~ev.has_motion \/ ev.faces = 0 \/ Elapsed < detection_interval) =>
              (~ev.dispatched /\ last_detection_time = ev.prev_last)

C27_Witness ==
    /\ LDEval /\ ev.has_motion /\ ev.faces = 0 /\ ~ev.threw
    /\ Elapsed >= detection_interval /\ ev.prev_last > 0
    /\ last_detection_time = ev.prev_last /\ ev.t > ev.prev_last

\* C28 (as claimed): before the first dispatch the timer suppresses nothing:
\* process_stream dispatches on a motion frame that brings the counter to
\* min_motion_frames, process_live_stream on a motion frame with a face.
C28_FreshDetectorNotInCooldown ==
    /\ (MDEval /\ PriorDispatches = 0 /\ ev.has_motion
               /\ ev.count >= min_motion_frames) => ev.dispatched
    /\ (LDEval /\ PriorDispatches = 0 /\ ev.has_motion /\ ev.faces > 0) => ev.dispatched

\* C29 (as claimed): no start_camera replaces a handle that is still open, and
\* the add-person capture leaves no opened handle behind.
C29_OneHandle ==
    /\ call.exit # "unreleased"
    /\ (call.op = "add_known_person" /\ app_pc = "menu") => ld_cap # "opened"

\* C30: in process_live_stream the quit key read in an iteration that admits
\* its frame does not drop the event: the generator is at the yield with the
\* event handed out, and the loop ends, without a further read, when the
\* consumer resumes it; a loop ended by the quit key is finished.
C30_QuitAfterYield ==
    /\ (LiveSession /\ ld_key = "q") => (ld_pc = "yield" /\ ndispatch >= 1)
    /\ LoopEnded("quit") =>
          /\ call.exc = "none"
          /\ pipeline = "motion" => md_pc = "done"
          /\ LiveSession => (ld_pc = "done" /\ ~is_monitoring /\ ld_key = "none")

C30_Witness ==
    /\ pipeline = "app" /\ app_pc = "run" /\ ld_key = "q" /\ ld_pc = "yield"
    /\ LDEval /\ ev.dispatched /\ ev.t = now /\ ndispatch = 1

====
